---- MODULE Spec2Model ----
(***************************************************************************)
(* Resumable bulk crawler of the procurement catalogue.                    *)
(*                                                                         *)
(*   download_pcc_data.py  PCCDownloader._request_with_retry, list_by_date,*)
(*                         get_tender_detail, download_date_range,         *)
(*                         download_all_data,                              *)
(*                         _save_progress, download_tender_details, main   *)
(*   download_2026.py      download_2026_data                              *)
(*                                                                         *)
(* The model follows one output directory over a sequence of process runs. *)
(* A run is cut into the steps between which the process can be killed or  *)
(* interrupted (KeyboardInterrupt).  Files are modelled by what is on disk;*)
(* the record file also has the writes still held in the process' buffer.  *)
(***************************************************************************)
EXTENDS Integers, Sequences, FiniteSets, TLC

VARIABLES
    mode,             \* the program of the runs: main's --mode "all",
                      \* "details" or "recent", or "y2026" for
                      \* download_2026.py
    pc,               \* position of the running process, or how it ended
    run,              \* number of the current process run
    exit_at,          \* pc at which the last run was interrupted / killed
    progress_file,    \* download_progress.json on disk
    data_disk,        \* all_tenders.jsonl: lines on disk
    data_buf,         \* all_tenders.jsonl: lines written, still buffered
    all_data_exists,  \* all_tenders.jsonl exists
    details_progress, \* details_progress.json on disk
    details_disk,     \* tender_details.jsonl: lines on disk
    details_buf,      \* tender_details.jsonl: lines written, still buffered
    downloaded_dates, \* in-memory set of completed date keys
    downloaded_count, \* dates completed by this run
    total_tenders,    \* records fetched by this run
    current_date,     \* loop variable (day ordinal)
    towrite,          \* records of `data` not yet written
    count,            \* len(data) of the date being processed
    downloaded_ids,   \* in-memory set of completed detail keys
    tenders,          \* list records still to be fetched, in file order
    details_count,    \* `count` of download_tender_details
    all_data,         \* download_date_range: records collected in memory
    range_file,       \* tenders_<start>_<end>.json on disk
    caller,           \* which method is inside _request_with_retry
    attempt,          \* loop variable of _request_with_retry
    responses,        \* what the server answered to each attempt of the call
    sleeps,           \* time.sleep() arguments of the current call, in order
    call_result,      \* outcome of the _request_with_retry call
    waited,           \* time.sleep() was called since the last HTTP request
                      \* of this run, or the run has sent none
    oldest_date_str,  \* info.get('最舊資料時間', ''), as characters
    newest_date_str,  \* info.get('最新資料時間', ''), as characters
    oldest_date,      \* start of the range as resolved from the metadata
    newest_date,      \* end of the range as resolved from the metadata
    loaded,           \* history: keys read from the checkpoint at load
    fetched,          \* history: date keys passed to list_by_date, in order
    requested,        \* history: pairs passed to get_tender_detail, in order
    rate_limited,     \* history: every attempt of the call was answered 429
    got,              \* history: dates that returned records to this run
    served,           \* history: dates answered successfully to this run
    failed,           \* history: dates whose fetch raised in this run
    answers,          \* history: whether each detail request of this run
                      \* returned a document, in order
    flushed_keys,     \* history: keys of the last completed checkpoint write
    prev              \* history: how the previous run ended and what it left

procv == <<pc, run, exit_at>>
filev == <<progress_file, data_disk, data_buf, all_data_exists>>
dfilev == <<details_progress, details_disk, details_buf>>
memv == <<downloaded_dates, downloaded_count, total_tenders, current_date,
          towrite, count>>
dmemv == <<downloaded_ids, tenders, details_count>>
callv == <<caller, attempt, responses, sleeps, call_result, rate_limited,
          waited>>
histv == <<loaded, fetched, requested, got, served, failed, answers,
          flushed_keys, prev>>

rangev == <<all_data, range_file>>
infov == <<oldest_date_str, newest_date_str, oldest_date, newest_date>>

vars == <<mode, infov, procv, filev, dfilev, memv, dmemv, rangev, callv, histv>>

-----------------------------------------------------------------------------
(* Bounds of the model *)

NumDates == 3        \* days in the range the metadata endpoint reports
MaxRuns == 2         \* process runs over the same output directory
SaveInterval == 2    \* save_interval argument (scaled down from 100)
BatchSize == 1       \* batch_size argument (scaled down from 1000)
MaxLines == 2        \* lines of the list file a detail crawl starts on

(* Program constants *)

max_retries == 3     \* _request_with_retry(..., max_retries=3)
RateLimitBase == 10  \* wait_time = 10 * (attempt + 1)
TimeoutSleep == 5    \* time.sleep(5) between timed-out attempts

-----------------------------------------------------------------------------
(* Dates.  datetime arithmetic is on day ordinals; strftime("%Y%m%d")      *)
(* formats an ordinal as an 8 character key.  Ordinal 1 is 2026-01-01.     *)

StartOrdinal == 30

MonthDays == <<31, 28, 31, 30, 31, 30, 31, 31, 30, 31, 30, 31>>

Digit == <<"0", "1", "2", "3", "4", "5", "6", "7", "8", "9">>

TwoDigits(n) == Digit[(n \div 10) + 1] \o Digit[(n % 10) + 1]

RECURSIVE MonthOf(_, _)
MonthOf(ord, m) ==
    IF m = 12 \/ ord <= MonthDays[m] THEN <<m, ord>>
    ELSE MonthOf(ord - MonthDays[m], m + 1)

DateStr(ord) ==
    LET md == MonthOf(ord, 1) IN "2026" \o TwoDigits(md[1]) \o TwoDigits(md[2])

start_date == StartOrdinal
end_date == StartOrdinal + NumDates - 1
Ordinals == start_date .. end_date
DateKeys == {DateStr(d) : d \in Ordinals}

(* download_2026.py: start_date = datetime(2026, 1, 1); its end_date is    *)
(* as many days later as the range of the model is long                    *)
Y2026Start == 1
Y2026End == Y2026Start + NumDates - 1

(* The catalogue: how many records the list endpoint holds for a day       *)
(* (repeating over the days).  It does not change between runs.            *)
Catalogue == <<1, 0, 2>>

RecordsOn(ord) == Catalogue[(ord % Len(Catalogue)) + 1]

Upstream(ord) == [i \in 1 .. RecordsOn(ord) |-> [id |-> i]]

(* Identifiers in list records.  A field can be empty, and an identifier   *)
(* can contain the character the detail key is joined with.                *)
Tender(u, j) == [unit_id |-> u, job_number |-> j]

TenderRecords ==
    {Tender("A", "1"), Tender("A", "B_1"), Tender("A_B", "1"),
     Tender("", "1"), Tender("A", "")}

(* the list files a detail crawl can find *)
ListFiles == UNION {[1 .. n -> TenderRecords] : n \in 0 .. MaxLines}

-----------------------------------------------------------------------------
(* Files *)

NoFile == [st |-> "absent", dates |-> {}, total |-> 0]

(* open(progress_file, 'w'): the file exists and is empty until the dump   *)
(* has been written and the file closed; an empty or cut-off file is not   *)
(* valid JSON.                                                             *)
OpenForWrite(file) == [st |-> "partial", dates |-> {}, total |-> 0]

(* mutant: only the keys of the range being crawled are written *)
DumpProgressOfRange(dates, total) ==
    [st |-> "ok", dates |-> dates \cap DateKeys, total |-> total]

(* mutant: the snapshot is written without its keys *)
DumpProgressEmpty(dates, total) == [st |-> "ok", dates |-> {}, total |-> total]

(* json.dump of the full snapshot, file closed *)
DumpProgress(dates, total) == [st |-> "ok", dates |-> dates, total |-> total]

(* json.load(progress_file) succeeds *)
Loadable(file) == file.st = "ok"

(* mutant: the checkpoint is not read back *)
LoadDatesFresh(file) == {}

(* progress.get('downloaded_dates', []) of a run that starts on `file` *)
LoadDates(file) == IF file.st = "ok" THEN file.dates ELSE {}

(* keys a later run can read back from the checkpoint on disk *)
CheckpointKeys == IF progress_file.st = "ok" THEN progress_file.dates ELSE {}

(* a date key outside the range of the crawl *)
ForeignKey == "20251231"

(* download_progress.json as an earlier crawl of another range left it *)
LeftBehind == [st |-> "ok", dates |-> {ForeignKey}, total |-> 0]

(* item['_download_date'] = date_str; json.dumps(item) + '\n' *)
Stamp(item, date_str) == [date |-> date_str, id |-> item.id]

(* tenders_<start>_<end>.json: open(output_file, 'w'), then json.dump of   *)
(* the collected records                                                   *)
NoRangeFile == [st |-> "absent", records |-> <<>>]
OpenRangeFile == [st |-> "partial", records |-> <<>>]
DumpRange(records) == [st |-> "ok", records |-> records]

(* details_progress.json *)
NoDetails == [st |-> "absent", ids |-> {}]
OpenDetailsForWrite(file) == [st |-> "partial", ids |-> {}]
DumpDetails(ids) == [st |-> "ok", ids |-> ids]
LoadIds(file) == IF file.st = "ok" THEN file.ids ELSE {}
DetailKeys == IF details_progress.st = "ok" THEN details_progress.ids ELSE {}

(* number of lines of a date in a sequence of lines *)
CountOf(lines, date_str) ==
    Cardinality({i \in 1 .. Len(lines) : lines[i].date = date_str})

-----------------------------------------------------------------------------
(* _request_with_retry *)

Responses == {"ok", "r429", "timeout", "httperr", "connerr", "badjson"}

(* answers the server gives to a caller.  A 200 answer to the detail       *)
(* endpoint can carry a body that is falsy in Python ({} or null); the     *)
(* list endpoint answers with the catalogue's records of the day.          *)
ResponsesTo(who) ==
    IF who = "get_tender_detail" THEN Responses \cup {"empty"} ELSE Responses

(* exception classes raised for a response; response.json() on a malformed *)
(* body raises requests' JSONDecodeError or a plain ValueError, depending  *)
(* on the installed requests version                                       *)
Raises(resp) ==
    CASE resp = "timeout" -> {"Timeout"}
      [] resp = "httperr" -> {"HTTPError"}
      [] resp = "connerr" -> {"ConnectionError"}
      [] resp = "badjson" -> {"JSONDecodeError", "ValueError"}
      [] OTHER -> {}

(* subclasses of requests.exceptions.RequestException *)
IsRequestException(exc) ==
    exc \in {"Timeout", "HTTPError", "ConnectionError", "JSONDecodeError"}

Pending == [kind |-> "pending", exc |-> ""]
Value == [kind |-> "value", exc |-> ""]
Falsy == [kind |-> "falsy", exc |-> ""]
None == [kind |-> "none", exc |-> ""]
Raise(exc) == [kind |-> "raise", exc |-> exc]

(* what the loop does when it falls off its end: line 58 *)
RetriesExhausted == None

(* mutant: a 429 is retried however many attempts were made *)
RetryStepNoBudget(a, resp, exc) ==
    CASE resp = "r429" ->
            [sleep |-> RateLimitBase * (a + 1), attempt |-> a + 1,
             result |-> Pending]
      [] resp = "timeout" ->
            IF a < max_retries - 1
            THEN [sleep |-> TimeoutSleep, attempt |-> a + 1, result |-> Pending]
            ELSE [sleep |-> 0, attempt |-> a, result |-> Raise(exc)]
      [] resp = "ok" -> [sleep |-> 0, attempt |-> a, result |-> Value]
      [] resp = "empty" -> [sleep |-> 0, attempt |-> a, result |-> Falsy]
      [] OTHER -> [sleep |-> 0, attempt |-> a, result |-> Raise(exc)]

(* mutant: the last timeout is swallowed *)
RetryStepSwallows(a, resp, exc) ==
    CASE resp = "r429" ->
            [sleep |-> RateLimitBase * (a + 1), attempt |-> a + 1,
             result |-> IF a + 1 < max_retries THEN Pending ELSE None]
      [] resp = "timeout" ->
            IF a < max_retries - 1
            THEN [sleep |-> TimeoutSleep, attempt |-> a + 1, result |-> Pending]
            ELSE [sleep |-> 0, attempt |-> a, result |-> None]
      [] resp = "ok" -> [sleep |-> 0, attempt |-> a, result |-> Value]
      [] resp = "empty" -> [sleep |-> 0, attempt |-> a, result |-> Falsy]
      [] OTHER -> [sleep |-> 0, attempt |-> a, result |-> Raise(exc)]

(* mutant: every exception is retried like a timeout *)
RetryStepRetriesAll(a, resp, exc) ==
    CASE resp = "r429" ->
            [sleep |-> RateLimitBase * (a + 1), attempt |-> a + 1,
             result |-> IF a + 1 < max_retries THEN Pending ELSE None]
      [] resp = "ok" -> [sleep |-> 0, attempt |-> a, result |-> Value]
      [] resp = "empty" -> [sleep |-> 0, attempt |-> a, result |-> Falsy]
      [] OTHER ->
            IF a < max_retries - 1
            THEN [sleep |-> TimeoutSleep, attempt |-> a + 1, result |-> Pending]
            ELSE [sleep |-> 0, attempt |-> a, result |-> Raise(exc)]

(* mutant: the wait after a 429 does not grow *)
RetryStepFlatWait(a, resp, exc) ==
    CASE resp = "r429" ->
            [sleep |-> RateLimitBase, attempt |-> a + 1,
             result |-> IF a + 1 < max_retries THEN Pending ELSE None]
      [] resp = "timeout" ->
            IF a < max_retries - 1
            THEN [sleep |-> TimeoutSleep, attempt |-> a + 1, result |-> Pending]
            ELSE [sleep |-> 0, attempt |-> a, result |-> Raise(exc)]
      [] resp = "ok" -> [sleep |-> 0, attempt |-> a, result |-> Value]
      [] resp = "empty" -> [sleep |-> 0, attempt |-> a, result |-> Falsy]
      [] OTHER -> [sleep |-> 0, attempt |-> a, result |-> Raise(exc)]

(* One pass of the for loop, attempt a (0-based), server answer resp.      *)
(* sleep = 0 stands for no sleep.                                          *)
RetryStep(a, resp, exc) ==
    CASE resp = "r429" ->
            [sleep |-> RateLimitBase * (a + 1), attempt |-> a + 1,
             result |-> IF a + 1 < max_retries THEN Pending ELSE RetriesExhausted]
      [] resp = "timeout" ->
            IF a < max_retries - 1
            THEN [sleep |-> TimeoutSleep, attempt |-> a + 1, result |-> Pending]
            ELSE [sleep |-> 0, attempt |-> a, result |-> Raise(exc)]
      [] resp = "ok" -> [sleep |-> 0, attempt |-> a, result |-> Value]
      [] resp = "empty" -> [sleep |-> 0, attempt |-> a, result |-> Falsy]
      [] OTHER -> [sleep |-> 0, attempt |-> a, result |-> Raise(exc)]

(* download_2026.py, lines 67-85: the same loop written in line, followed  *)
(* by response.json().  When the loop ends without `break` the response    *)
(* is the answer to the last attempt, a 429.                               *)
Y2026Attempts == 3

Stale == [kind |-> "stale", exc |-> ""]

Y2026RetryStep(a, resp, exc) ==
    CASE resp = "r429" ->
            [sleep |-> RateLimitBase * (a + 1), attempt |-> a + 1,
             result |-> IF a + 1 < Y2026Attempts THEN Pending ELSE Stale]
      [] resp = "timeout" ->
            IF a < Y2026Attempts - 1
            THEN [sleep |-> TimeoutSleep, attempt |-> a + 1, result |-> Pending]
            ELSE [sleep |-> 0, attempt |-> a, result |-> Raise(exc)]
      [] resp = "ok" -> [sleep |-> 0, attempt |-> a, result |-> Value]
      [] OTHER -> [sleep |-> 0, attempt |-> a, result |-> Raise(exc)]

(* list_by_date: the list handed to the crawl for a finished call *)
ListByDate(result, ord) ==
    IF result.kind = "value" THEN Upstream(ord) ELSE <<>>

-----------------------------------------------------------------------------
(* The programs: main's crawl modes, and download_2026.py *)

Modes == {"all", "details", "y2026", "recent"}

Running == {"start", "request", "called", "load", "loop", "write",
            "save_check", "save", "dump", "flush", "advance",
            "save_final", "dump_final",
            "d_load", "d_loop", "d_write", "d_mark", "d_save_check",
            "d_save", "d_dump", "d_flush", "d_sleep",
            "d_save_final", "d_dump_final",
            "y_loop", "y_write", "y_mark", "y_save", "y_dump", "y_advance",
            "r_loop", "r_dump"}

(* positions inside `with open(<record file>, 'a')` of a crawl; a          *)
(* get_info call is outside, with nothing buffered                         *)
InWith == {"loop", "request", "called", "write", "save_check", "save",
           "dump", "flush", "advance",
           "d_loop", "d_write", "d_mark", "d_save_check", "d_save",
           "d_dump", "d_flush", "d_sleep",
           "y_loop", "y_write", "y_mark", "y_save", "y_dump", "y_advance"}

Ended == {"returned", "interrupted", "crashed", "raised"}

date_str == DateStr(current_date)

(* mutant: the loop stops before the last date *)
InRangeExclusive(ord, last) == ord < last

(* `while current_date <= end_date` *)
InRange(ord, last) == ord <= last

(* mutant: no date is skipped *)
SkipTestNever(key, done) == FALSE

(* `if date_str in downloaded_dates`: the date is skipped *)
SkipTest(key, done) == key \in done

(* `if downloaded_count % save_interval == 0` *)
SaveDue(n) == n % SaveInterval = 0

(* mutant: the record file is opened with 'w' *)
OpenTruncating(lines) == <<>>

(* open(<record file>, 'a'): what is in the file stays, writes go after it *)
OpenForAppend(lines) == lines

(* f.flush(), and the close at the end of the with block *)
FlushedDisk(disk, buf) == disk \o buf

NoCall ==
    /\ caller' = "none"
    /\ attempt' = 0
    /\ responses' = <<>>
    /\ sleeps' = <<>>
    /\ call_result' = Pending
    /\ rate_limited' = FALSE

BeginCall(who) ==
    /\ caller' = who
    /\ attempt' = 0
    /\ responses' = <<>>
    /\ sleeps' = <<>>
    /\ call_result' = Pending
    /\ rate_limited' = FALSE
    /\ pc' = "request"
    /\ UNCHANGED waited

(* what the list crawl leaves alone / what the detail crawl leaves alone *)
detailv == <<mode, infov, dfilev, dmemv, rangev, requested, answers>>
listv == <<mode, infov, progress_file, data_buf, memv, rangev, fetched, got, served,
          failed, flushed_keys>>

Init ==
    /\ mode \in Modes
    /\ pc = "start"
    /\ run = 1
    /\ exit_at = "none"
    /\ progress_file \in (IF mode = "all" THEN {NoFile, LeftBehind}
                          ELSE {NoFile})
    /\ all_data_exists \in (IF mode = "details" THEN BOOLEAN ELSE {FALSE})
    /\ data_disk \in (IF mode = "details" /\ all_data_exists THEN ListFiles
                      ELSE {<<>>})
    /\ data_buf = <<>>
    /\ details_progress = NoDetails
    /\ details_disk = <<>>
    /\ details_buf = <<>>
    /\ downloaded_dates = {}
    /\ downloaded_count = 0
    /\ total_tenders = 0
    /\ current_date = start_date
    /\ towrite = <<>>
    /\ count = 0
    /\ downloaded_ids = {}
    /\ tenders = <<>>
    /\ details_count = 0
    /\ all_data = <<>>
    /\ range_file = NoRangeFile
    /\ caller = "none"
    /\ attempt = 0
    /\ responses = <<>>
    /\ sleeps = <<>>
    /\ call_result = Pending
    /\ loaded = {}
    /\ fetched = <<>>
    /\ requested = <<>>
    /\ rate_limited = FALSE
    /\ waited = TRUE
    /\ oldest_date_str = <<>>
    /\ newest_date_str = <<>>
    /\ oldest_date = <<>>
    /\ newest_date = <<>>
    /\ got = {}
    /\ served = {}
    /\ failed = {}
    /\ answers = <<>>
    /\ flushed_keys = {}
    /\ prev = [exit |-> "none", keys |-> {}, disk |-> <<>>, total |-> 0]

(* lines 38-58: one attempt of the call in progress *)
Request ==
    /\ pc = "request" /\ caller # "download_2026_data"
    /\ \E resp \in ResponsesTo(caller) :
       \E exc \in (IF Raises(resp) = {} THEN {""} ELSE Raises(resp)) :
         LET step == RetryStep(attempt, resp, exc)
             all429 == /\ Len(responses) + 1 = max_retries
                       /\ \A i \in 1 .. Len(responses) : responses[i] = "r429"
                       /\ resp = "r429"
         IN /\ responses' = Append(responses, resp)
            /\ sleeps' = IF step.sleep > 0 THEN Append(sleeps, step.sleep)
                         ELSE sleeps
            /\ attempt' = step.attempt
            /\ call_result' = step.result
            /\ pc' = IF step.result.kind = "pending" THEN "request" ELSE "called"
            /\ rate_limited' = all429
            /\ waited' = (step.sleep > 0)
    /\ UNCHANGED <<mode, infov, run, exit_at, filev, dfilev, memv, dmemv, rangev,
                   caller, histv>>

-----------------------------------------------------------------------------
(* download_all_data and main('all') *)

(* line 285: info = self.get_info() *)
GetInfo ==
    /\ mode = "all" /\ pc = "start"
    /\ BeginCall("get_info")
    /\ UNCHANGED <<run, exit_at, filev, memv, histv, detailv>>

(* lines 288-315: info.get(...) on what get_info returned.  None has no    *)
(* .get and an exception of the call is not caught: the run dies.          *)
InfoReturn ==
    /\ pc = "called" /\ caller = "get_info"
    /\ IF call_result.kind = "value"
       THEN pc' = "load" /\ UNCHANGED exit_at
       ELSE pc' = "raised" /\ exit_at' = "get_info"
    /\ NoCall
    /\ UNCHANGED <<run, filev, memv, histv, detailv, waited>>

(* lines 317-343: read the checkpoint, set up the loop, open the sink *)
LoadProgress ==
    /\ pc = "load"
    /\ IF progress_file.st = "partial"
       THEN /\ pc' = "raised" /\ exit_at' = "load"
            /\ UNCHANGED <<downloaded_dates, loaded, all_data_exists,
                           data_disk>>
       ELSE /\ pc' = "loop" /\ UNCHANGED exit_at
            /\ downloaded_dates' = LoadDates(progress_file)
            /\ loaded' = LoadDates(progress_file)
            /\ all_data_exists' = TRUE
            /\ data_disk' = OpenForAppend(data_disk)
    /\ current_date' = start_date
    /\ downloaded_count' = 0
    /\ total_tenders' = 0
    /\ UNCHANGED <<run, progress_file, data_buf, towrite, count,
                   callv, fetched, got, served, failed, flushed_keys, prev, detailv>>

(* lines 348-351 *)
SkipDate ==
    /\ pc = "loop" /\ InRange(current_date, end_date)
    /\ SkipTest(date_str, downloaded_dates)
    /\ current_date' = current_date + 1
    /\ UNCHANGED <<procv, filev, downloaded_dates, downloaded_count,
                   total_tenders, towrite, count, callv, histv, detailv>>

(* line 357: data = self.list_by_date(date_str) *)
FetchDate ==
    /\ pc = "loop" /\ InRange(current_date, end_date)
    /\ ~SkipTest(date_str, downloaded_dates)
    /\ BeginCall("list_by_date")
    /\ fetched' = Append(fetched, date_str)
    /\ UNCHANGED <<run, exit_at, filev, memv, loaded, got, served, failed, flushed_keys,
                   prev, detailv>>

(* the call is over: its record is dropped, except whether it was rate    *)
(* limited throughout, which is kept while its date is being processed     *)
EndCall ==
    /\ caller' = "none"
    /\ attempt' = 0
    /\ responses' = <<>>
    /\ sleeps' = <<>>
    /\ call_result' = Pending
    /\ UNCHANGED <<rate_limited, waited>>

(* mutant: without the `except Exception` clause *)
OnFetchErrorUncaught(exc) == IF IsRequestException(exc) THEN "loop" ELSE "raised"

(* lines 372-379: where the crawl is after the handler of the exception;   *)
(* `except RequestException` ends with `continue`, `except Exception`      *)
(* falls through to line 382                                               *)
OnFetchError(exc) == IF IsRequestException(exc) THEN "loop" ELSE "save_check"

(* lines 357-358 and 372-379: the call returned or raised *)
ListReturn ==
    /\ pc = "called" /\ caller = "list_by_date"
    /\ IF call_result.kind # "raise"
       THEN /\ towrite' = ListByDate(call_result, current_date)
            /\ count' = Len(ListByDate(call_result, current_date))
            /\ got' = IF Len(ListByDate(call_result, current_date)) > 0
                      THEN got \cup {date_str} ELSE got
            /\ served' = IF call_result.kind = "value"
                         THEN served \cup {date_str} ELSE served
            /\ pc' = "write"
            /\ UNCHANGED <<current_date, failed>>
            /\ EndCall
       ELSE /\ pc' = OnFetchError(call_result.exc)
            /\ current_date' = IF IsRequestException(call_result.exc)
                               THEN current_date + 1 ELSE current_date
            /\ failed' = failed \cup {date_str}
            /\ UNCHANGED <<towrite, count, got, served>>
            /\ waited' = (waited \/ IsRequestException(call_result.exc))
            /\ NoCall
    /\ UNCHANGED <<run, exit_at, filev, downloaded_dates, downloaded_count,
                   total_tenders, loaded, fetched, requested, flushed_keys,
                   prev, detailv>>

(* lines 362-364: one record stamped and written.  The write goes to the   *)
(* file object's buffer; a full buffer is written out before the new line  *)
(* is buffered.                                                            *)
WriteItem ==
    /\ pc = "write" /\ towrite # <<>>
    /\ \E full \in BOOLEAN :
         /\ full => data_buf # <<>>
         /\ data_disk' = IF full THEN FlushedDisk(data_disk, data_buf)
                         ELSE data_disk
         /\ data_buf' = Append(IF full THEN <<>> ELSE data_buf,
                               Stamp(Head(towrite), date_str))
    /\ towrite' = Tail(towrite)
    /\ UNCHANGED <<procv, progress_file, all_data_exists, downloaded_dates,
                   downloaded_count, total_tenders, current_date, count,
                   callv, histv, detailv>>

(* mutant: a date without records is not marked *)
MarkCompleteIfRecords ==
    /\ pc = "write" /\ towrite = <<>>
    /\ total_tenders' = total_tenders + count
    /\ downloaded_dates' = IF count > 0 THEN downloaded_dates \cup {date_str}
                           ELSE downloaded_dates
    /\ downloaded_count' = downloaded_count + 1
    /\ pc' = "save_check"
    /\ UNCHANGED <<run, exit_at, filev, current_date, towrite, count, callv,
                   histv, detailv>>

(* lines 365-368 *)
MarkComplete ==
    /\ pc = "write" /\ towrite = <<>>
    /\ total_tenders' = total_tenders + count
    /\ downloaded_dates' = downloaded_dates \cup {date_str}
    /\ downloaded_count' = downloaded_count + 1
    /\ pc' = "save_check"
    /\ UNCHANGED <<run, exit_at, filev, current_date, towrite, count, callv,
                   histv, detailv>>

(* line 382 *)
SaveCheck ==
    /\ pc = "save_check"
    /\ pc' = IF SaveDue(downloaded_count) THEN "save" ELSE "advance"
    /\ UNCHANGED <<run, exit_at, filev, memv, callv, histv, detailv>>

(* line 409: open(progress_file, 'w') truncates the checkpoint *)
SaveOpen ==
    /\ pc \in {"save", "save_final"}
    /\ progress_file' = OpenForWrite(progress_file)
    /\ pc' = IF pc = "save" THEN "dump" ELSE "dump_final"
    /\ UNCHANGED <<run, exit_at, data_disk, data_buf, all_data_exists, memv,
                   callv, histv, detailv>>

(* line 410: json.dump and close *)
SaveDump ==
    /\ pc \in {"dump", "dump_final"}
    /\ progress_file' = DumpProgress(downloaded_dates, total_tenders)
    /\ flushed_keys' = downloaded_dates
    /\ pc' = IF pc = "dump" THEN "flush" ELSE "returned"
    /\ UNCHANGED <<run, exit_at, data_disk, data_buf, all_data_exists, memv,
                   callv, loaded, fetched, requested, got, served, failed,
                   answers, prev, mode, infov, dfilev, dmemv, rangev>>

(* line 384: data_file.flush() *)
Flush ==
    /\ pc = "flush"
    /\ data_disk' = FlushedDisk(data_disk, data_buf)
    /\ data_buf' = <<>>
    /\ pc' = "advance"
    /\ UNCHANGED <<run, exit_at, progress_file, all_data_exists, memv, callv,
                   histv, detailv>>

(* lines 386-388; `count` is assigned again before it is next read *)
Advance ==
    /\ pc = "advance"
    /\ current_date' = current_date + 1
    /\ count' = 0
    /\ pc' = "loop"
    /\ waited' = TRUE
    /\ NoCall
    /\ UNCHANGED <<run, exit_at, filev, downloaded_dates, downloaded_count,
                   total_tenders, towrite, histv, detailv>>

(* line 344 false: the with block ends and closes the sink *)
LoopExit ==
    /\ pc = "loop" /\ ~InRange(current_date, end_date)
    /\ data_disk' = FlushedDisk(data_disk, data_buf)
    /\ data_buf' = <<>>
    /\ pc' = "save_final"
    /\ UNCHANGED <<run, exit_at, progress_file, all_data_exists, memv, callv,
                   histv, detailv>>

-----------------------------------------------------------------------------
(* download_tender_details and main('details') *)

(* lines 444 and 458: tender_id = f"{unit_id}_{job_number}" *)
TenderId(unit_id, job_number) == unit_id \o "_" \o job_number

(* mutant: the detail checkpoint is not consulted *)
EligibleAgain(tender, ids) == tender.unit_id # "" /\ tender.job_number # ""

(* mutant: records with an empty field are scheduled too *)
EligibleEvenIfEmpty(tender, ids) ==
    TenderId(tender.unit_id, tender.job_number) \notin ids

(* line 445: the record is scheduled *)
Eligible(tender, ids) ==
    /\ TenderId(tender.unit_id, tender.job_number) \notin ids
    /\ tender.unit_id # ""
    /\ tender.job_number # ""

(* lines 439-448: the work list, in file order *)
TendersToFetch(lines, ids) == SelectSeq(lines, LAMBDA t : Eligible(t, ids))

(* `if count % batch_size == 0` *)
BatchDue(n) == n % BatchSize = 0

(* lines 425-427: without a list file the crawl returns at once *)
DetailsStart ==
    /\ mode = "details" /\ pc = "start"
    /\ pc' = IF all_data_exists THEN "d_load" ELSE "returned"
    /\ UNCHANGED <<run, exit_at, dfilev, dmemv, callv, histv, filev, listv>>

(* lines 430-454: read the detail checkpoint, scan the list file, open the *)
(* detail sink                                                             *)
DetailsLoad ==
    /\ pc = "d_load"
    /\ IF details_progress.st = "partial"
       THEN /\ pc' = "raised" /\ exit_at' = "d_load"
            /\ UNCHANGED <<downloaded_ids, tenders, loaded, details_disk>>
       ELSE /\ pc' = "d_loop" /\ UNCHANGED exit_at
            /\ downloaded_ids' = LoadIds(details_progress)
            /\ loaded' = LoadIds(details_progress)
            /\ tenders' = TendersToFetch(data_disk, LoadIds(details_progress))
            /\ details_disk' = OpenForAppend(details_disk)
    /\ details_count' = 0
    /\ UNCHANGED <<run, details_progress, details_buf, callv, requested, answers, prev, filev, listv>>

(* lines 455-461: detail = self.get_tender_detail(unit_id, job_number) *)
FetchDetail ==
    /\ pc = "d_loop" /\ tenders # <<>>
    /\ BeginCall("get_tender_detail")
    /\ requested' = Append(requested,
                           <<Head(tenders).unit_id, Head(tenders).job_number>>)
    /\ UNCHANGED <<run, exit_at, dfilev, dmemv, loaded, answers, prev, filev,
                   listv>>

(* mutant: only an exception keeps the pair from being written *)
DetailOkUnlessRaised(result) == result.kind # "raise"

(* line 461: `if detail:` is reached and true *)
DetailOk(result) == result.kind = "value"

(* lines 461-462 and 480-481: a falsy detail, None, or any exception       *)
(* leaves the pair as it is                                                *)
DetailReturn ==
    /\ pc = "called" /\ caller = "get_tender_detail"
    /\ pc' = IF DetailOk(call_result) THEN "d_write" ELSE "d_sleep"
    /\ answers' = Append(answers, call_result.kind = "value")
    /\ NoCall
    /\ UNCHANGED waited
    /\ UNCHANGED <<run, exit_at, dfilev, dmemv, loaded, requested, prev,
                   filev, listv>>

(* line 463: f.write(json.dumps(detail) + '\n') *)
WriteDetail ==
    /\ pc = "d_write"
    /\ \E full \in BOOLEAN :
         /\ full => details_buf # <<>>
         /\ details_disk' = IF full THEN FlushedDisk(details_disk, details_buf)
                            ELSE details_disk
         /\ details_buf' = Append(IF full THEN <<>> ELSE details_buf,
                                  <<Head(tenders).unit_id,
                                    Head(tenders).job_number>>)
    /\ pc' = "d_mark"
    /\ UNCHANGED <<run, exit_at, details_progress, dmemv, callv, histv, filev,
                   listv>>

(* lines 464-465 *)
MarkDetail ==
    /\ pc = "d_mark"
    /\ downloaded_ids' = downloaded_ids \cup
           {TenderId(Head(tenders).unit_id, Head(tenders).job_number)}
    /\ details_count' = details_count + 1
    /\ pc' = "d_save_check"
    /\ UNCHANGED <<run, exit_at, dfilev, tenders, callv, histv, filev, listv>>

(* line 471 *)
BatchCheck ==
    /\ pc = "d_save_check"
    /\ pc' = IF BatchDue(details_count) THEN "d_save" ELSE "d_sleep"
    /\ UNCHANGED <<run, exit_at, dfilev, dmemv, callv, histv, filev, listv>>

(* lines 473 and 486: open(progress_file, 'w') *)
DetailsOpen ==
    /\ pc \in {"d_save", "d_save_final"}
    /\ details_progress' = OpenDetailsForWrite(details_progress)
    /\ pc' = IF pc = "d_save" THEN "d_dump" ELSE "d_dump_final"
    /\ UNCHANGED <<run, exit_at, details_disk, details_buf, dmemv, callv,
                   histv, filev, listv>>

(* lines 474-477 and 487-490: json.dump and close *)
DetailsDump ==
    /\ pc \in {"d_dump", "d_dump_final"}
    /\ details_progress' = DumpDetails(downloaded_ids)
    /\ pc' = IF pc = "d_dump" THEN "d_flush" ELSE "returned"
    /\ UNCHANGED <<run, exit_at, details_disk, details_buf, dmemv, callv,
                   histv, filev, listv>>

(* line 478: f.flush() *)
FlushDetails ==
    /\ pc = "d_flush"
    /\ details_disk' = FlushedDisk(details_disk, details_buf)
    /\ details_buf' = <<>>
    /\ pc' = "d_sleep"
    /\ UNCHANGED <<run, exit_at, details_progress, dmemv, callv, histv, filev,
                   listv>>

(* line 483 and the next pass of `for tender in tenders` *)
NextTender ==
    /\ pc = "d_sleep"
    /\ tenders' = Tail(tenders)
    /\ pc' = "d_loop"
    /\ waited' = TRUE
    /\ UNCHANGED <<run, exit_at, dfilev, downloaded_ids, details_count, caller,
                   attempt, responses, sleeps, call_result, rate_limited,
                   histv, filev, listv>>

(* the for loop is over: the with block ends and closes the sink *)
DetailsExit ==
    /\ pc = "d_loop" /\ tenders = <<>>
    /\ details_disk' = FlushedDisk(details_disk, details_buf)
    /\ details_buf' = <<>>
    /\ pc' = "d_save_final"
    /\ UNCHANGED <<run, exit_at, details_progress, dmemv, callv, histv, filev,
                   listv>>

-----------------------------------------------------------------------------
(* download_2026.py: download_2026_data *)

(* lines 30-52: read the checkpoint, set up the loop, open the sink *)
Y2026Load ==
    /\ mode = "y2026" /\ pc = "start"
    /\ IF progress_file.st = "partial"
       THEN /\ pc' = "raised" /\ exit_at' = "y_load"
            /\ UNCHANGED <<downloaded_dates, loaded, all_data_exists,
                           data_disk>>
       ELSE /\ pc' = "y_loop" /\ UNCHANGED exit_at
            /\ downloaded_dates' = LoadDates(progress_file)
            /\ loaded' = LoadDates(progress_file)
            /\ all_data_exists' = TRUE
            /\ data_disk' = OpenForAppend(data_disk)
    /\ current_date' = Y2026Start
    /\ total_tenders' = 0
    /\ UNCHANGED <<run, progress_file, data_buf, downloaded_count,
                   towrite, count, callv, fetched, got, served, failed, flushed_keys, prev,
                   detailv>>

(* lines 56-59 *)
Y2026Skip ==
    /\ pc = "y_loop" /\ current_date <= Y2026End
    /\ SkipTest(date_str, downloaded_dates)
    /\ current_date' = current_date + 1
    /\ UNCHANGED <<procv, filev, downloaded_dates, downloaded_count,
                   total_tenders, towrite, count, callv, histv, detailv>>

(* lines 61-67: the request for the date is about to be sent *)
Y2026Fetch ==
    /\ pc = "y_loop" /\ current_date <= Y2026End
    /\ ~SkipTest(date_str, downloaded_dates)
    /\ BeginCall("download_2026_data")
    /\ fetched' = Append(fetched, date_str)
    /\ UNCHANGED <<run, exit_at, filev, memv, loaded, got, served, failed, flushed_keys,
                   prev, detailv>>

(* lines 67-85: one pass of the retry loop *)
Y2026Request ==
    /\ pc = "request" /\ caller = "download_2026_data"
    /\ \E resp \in Responses :
       \E exc \in (IF Raises(resp) = {} THEN {""} ELSE Raises(resp)) :
         LET step == Y2026RetryStep(attempt, resp, exc)
             all429 == /\ Len(responses) + 1 = Y2026Attempts
                       /\ \A i \in 1 .. Len(responses) : responses[i] = "r429"
                       /\ resp = "r429"
         IN /\ responses' = Append(responses, resp)
            /\ sleeps' = IF step.sleep > 0 THEN Append(sleeps, step.sleep)
                         ELSE sleeps
            /\ attempt' = step.attempt
            /\ call_result' = step.result
            /\ pc' = IF step.result.kind = "pending" THEN "request" ELSE "called"
            /\ rate_limited' = all429
            /\ waited' = (step.sleep > 0)
    /\ UNCHANGED <<mode, infov, run, exit_at, filev, dfilev, memv, dmemv, rangev,
                   caller, histv>>

(* lines 85-86 and 107-108.  After a loop that ended without `break` the   *)
(* body of the 429 answer is parsed: it is JSON without records, or it is  *)
(* not JSON and response.json() raises.  Every exception is caught and     *)
(* leaves the date as it is.                                               *)
Y2026Return ==
    /\ pc = "called" /\ caller = "download_2026_data"
    /\ \E parses \in BOOLEAN :
         IF call_result.kind = "value" \/ (call_result.kind = "stale" /\ parses)
         THEN /\ towrite' = ListByDate(call_result, current_date)
              /\ count' = Len(ListByDate(call_result, current_date))
              /\ got' = IF Len(ListByDate(call_result, current_date)) > 0
                        THEN got \cup {date_str} ELSE got
              /\ served' = IF call_result.kind = "value"
                           THEN served \cup {date_str} ELSE served
              /\ pc' = "y_write"
              /\ UNCHANGED failed
              /\ EndCall
         ELSE /\ pc' = "y_advance"
              /\ failed' = failed \cup {date_str}
              /\ UNCHANGED <<towrite, count, got, served, waited>>
              /\ NoCall
    /\ UNCHANGED <<run, exit_at, filev, downloaded_dates, downloaded_count,
                   total_tenders, current_date, loaded, fetched, requested,
                   flushed_keys, prev, detailv>>

(* lines 89-91: one record stamped and written to the file object *)
Y2026Write ==
    /\ pc = "y_write" /\ towrite # <<>>
    /\ \E full \in BOOLEAN :
         /\ full => data_buf # <<>>
         /\ data_disk' = IF full THEN FlushedDisk(data_disk, data_buf)
                         ELSE data_disk
         /\ data_buf' = Append(IF full THEN <<>> ELSE data_buf,
                               Stamp(Head(towrite), date_str))
    /\ towrite' = Tail(towrite)
    /\ UNCHANGED <<procv, progress_file, all_data_exists, downloaded_dates,
                   downloaded_count, total_tenders, current_date, count,
                   callv, histv, detailv>>

(* mutant: without the f.flush() of line 92 *)
Y2026FlushLeftOut ==
    /\ pc = "y_write" /\ towrite = <<>>
    /\ total_tenders' = IF count > 0 THEN total_tenders + count
                        ELSE total_tenders
    /\ pc' = "y_mark"
    /\ UNCHANGED <<run, exit_at, progress_file, data_disk, data_buf,
                   all_data_exists, downloaded_dates, downloaded_count,
                   current_date, towrite, count, callv, histv, detailv>>

(* lines 88 and 92-96: f.flush() when there were records *)
Y2026Flush ==
    /\ pc = "y_write" /\ towrite = <<>>
    /\ IF count > 0
       THEN /\ data_disk' = FlushedDisk(data_disk, data_buf)
            /\ data_buf' = <<>>
            /\ total_tenders' = total_tenders + count
       ELSE UNCHANGED <<data_disk, data_buf, total_tenders>>
    /\ pc' = "y_mark"
    /\ UNCHANGED <<run, exit_at, progress_file, all_data_exists,
                   downloaded_dates, downloaded_count, current_date, towrite,
                   count, callv, histv, detailv>>

(* line 99 *)
Y2026Mark ==
    /\ pc = "y_mark"
    /\ downloaded_dates' = downloaded_dates \cup {date_str}
    /\ pc' = "y_save"
    /\ UNCHANGED <<run, exit_at, filev, downloaded_count, total_tenders,
                   current_date, towrite, count, callv, histv, detailv>>

(* line 100: open(progress_file, 'w') *)
Y2026Open ==
    /\ pc = "y_save"
    /\ progress_file' = OpenForWrite(progress_file)
    /\ pc' = "y_dump"
    /\ UNCHANGED <<run, exit_at, data_disk, data_buf, all_data_exists, memv,
                   callv, histv, detailv>>

(* lines 101-105: json.dump and close *)
Y2026Dump ==
    /\ pc = "y_dump"
    /\ progress_file' = DumpProgress(downloaded_dates, total_tenders)
    /\ flushed_keys' = downloaded_dates
    /\ pc' = "y_advance"
    /\ UNCHANGED <<run, exit_at, data_disk, data_buf, all_data_exists, memv,
                   callv, loaded, fetched, requested, got, served, failed,
                   answers, prev, mode, infov, dfilev, dmemv, rangev>>

(* lines 110-111 *)
Y2026Advance ==
    /\ pc = "y_advance"
    /\ current_date' = current_date + 1
    /\ count' = 0
    /\ pc' = "y_loop"
    /\ waited' = TRUE
    /\ NoCall
    /\ UNCHANGED <<run, exit_at, filev, downloaded_dates, downloaded_count,
                   total_tenders, towrite, histv, detailv>>

(* line 53 false: the with block ends and closes the sink *)
Y2026Exit ==
    /\ pc = "y_loop" /\ current_date > Y2026End
    /\ data_disk' = FlushedDisk(data_disk, data_buf)
    /\ data_buf' = <<>>
    /\ pc' = "returned"
    /\ UNCHANGED <<run, exit_at, progress_file, all_data_exists, memv, callv,
                   histv, detailv>>

-----------------------------------------------------------------------------
(* download_date_range and main('recent') *)

(* lines 166-172 *)
RangeStart ==
    /\ mode = "recent" /\ pc = "start"
    /\ current_date' = start_date
    /\ all_data' = <<>>
    /\ pc' = "r_loop"
    /\ UNCHANGED <<run, exit_at, filev, dfilev, downloaded_dates,
                   downloaded_count, total_tenders, towrite, count, dmemv,
                   range_file, callv, histv, mode, infov>>

(* lines 174-179: data = self.list_by_date(date_str) *)
RangeFetch ==
    /\ pc = "r_loop" /\ current_date <= end_date
    /\ BeginCall("download_date_range")
    /\ fetched' = Append(fetched, date_str)
    /\ UNCHANGED <<run, exit_at, filev, dfilev, memv, dmemv, rangev, loaded,
                   requested, got, served, failed, answers, flushed_keys,
                   prev, mode, infov>>

(* lines 179-189: the records are collected as they came; an empty list,   *)
(* None and every exception leave all_data as it is                        *)
RangeReturn ==
    /\ pc = "called" /\ caller = "download_date_range"
    /\ all_data' = all_data \o ListByDate(call_result, current_date)
    /\ served' = IF call_result.kind = "value" THEN served \cup {date_str}
                 ELSE served
    /\ failed' = IF call_result.kind = "raise" THEN failed \cup {date_str}
                 ELSE failed
    /\ current_date' = current_date + 1
    /\ pc' = "r_loop"
    /\ waited' = TRUE
    /\ NoCall
    /\ UNCHANGED <<run, exit_at, filev, dfilev, downloaded_dates,
                   downloaded_count, total_tenders, towrite, count, dmemv,
                   range_file, loaded, fetched, requested, got, answers,
                   flushed_keys, prev, mode, infov>>

(* lines 192-193: open(output_file, 'w') *)
RangeOpen ==
    /\ pc = "r_loop" /\ current_date > end_date
    /\ range_file' = OpenRangeFile
    /\ pc' = "r_dump"
    /\ UNCHANGED <<run, exit_at, filev, dfilev, memv, dmemv, all_data, callv,
                   histv, mode, infov>>

(* line 194: json.dump(all_data, f) and close *)
RangeDump ==
    /\ pc = "r_dump"
    /\ range_file' = DumpRange(all_data)
    /\ pc' = "returned"
    /\ UNCHANGED <<run, exit_at, filev, dfilev, memv, dmemv, all_data, callv,
                   histv, mode, infov>>

-----------------------------------------------------------------------------
(* The process ends early, and is started again *)

(* The process is gone: of its memory only the completed sets are kept,    *)
(* for the statements about what a run had marked complete.                *)
ProcessGone ==
    /\ downloaded_count' = 0
    /\ total_tenders' = 0
    /\ current_date' = start_date
    /\ towrite' = <<>>
    /\ count' = 0
    /\ tenders' = <<>>
    /\ details_count' = 0
    /\ all_data' = <<>>
    /\ waited' = TRUE
    /\ NoCall

(* main, lines 607-610 and 617-620: KeyboardInterrupt leaves the crawl at  *)
(* the point it is raised; the with block closes the sink on the way out   *)
(* and main prints and exits.  Lines 391 and 486 are not reached.          *)
(* download_2026.py does not catch it: the with block closes the sink and  *)
(* the process ends.                                                       *)
InterruptCloses(at) == at \in InWith

Interrupt ==
    /\ pc \in Running
    /\ data_disk' = IF InterruptCloses(pc) THEN FlushedDisk(data_disk, data_buf)
                    ELSE data_disk
    /\ details_disk' = IF InterruptCloses(pc)
                       THEN FlushedDisk(details_disk, details_buf)
                       ELSE details_disk
    /\ data_buf' = <<>>
    /\ details_buf' = <<>>
    /\ exit_at' = pc
    /\ pc' = "interrupted"
    /\ ProcessGone
    /\ UNCHANGED <<mode, infov, run, progress_file, all_data_exists,
                   details_progress, downloaded_dates, downloaded_ids,
                   range_file, histv>>

(* the process is killed or the machine stops: buffered writes are lost *)
Crash ==
    /\ pc \in Running
    /\ data_buf' = <<>>
    /\ details_buf' = <<>>
    /\ exit_at' = pc
    /\ pc' = "crashed"
    /\ ProcessGone
    /\ UNCHANGED <<mode, infov, run, progress_file, data_disk, all_data_exists,
                   details_progress, details_disk, downloaded_dates,
                   downloaded_ids, range_file, histv>>

(* how a run ended, as later runs are told about it: it returned, it was  *)
(* interrupted from the keyboard, or it died (killed, uncaught exception)  *)
HowEnded(at) == IF at \in {"returned", "interrupted"} THEN at ELSE "died"

(* the program is started again on the same output directory *)
NewRun ==
    /\ pc \in Ended
    /\ run < MaxRuns
    /\ run' = run + 1
    /\ pc' = "start"
    /\ prev' = IF mode = "details"
               THEN [exit |-> HowEnded(pc), keys |-> DetailKeys,
                     disk |-> details_disk, total |-> 0]
               ELSE [exit |-> HowEnded(pc), keys |-> CheckpointKeys,
                     disk |-> data_disk, total |-> progress_file.total]
    /\ exit_at' = "none"
    /\ downloaded_dates' = {}
    /\ downloaded_ids' = {}
    /\ ProcessGone
    /\ loaded' = {}
    /\ fetched' = <<>>
    /\ requested' = <<>>
    /\ got' = {}
    /\ served' = {}
    /\ failed' = {}
    /\ answers' = <<>>
    /\ UNCHANGED <<mode, infov, filev, dfilev, range_file, flushed_keys>>

Next ==
    \/ Request
    \/ GetInfo \/ InfoReturn \/ LoadProgress
    \/ SkipDate \/ FetchDate \/ ListReturn \/ WriteItem \/ MarkComplete
    \/ SaveCheck \/ SaveOpen \/ SaveDump \/ Flush \/ Advance \/ LoopExit
    \/ DetailsStart \/ DetailsLoad \/ FetchDetail \/ DetailReturn
    \/ WriteDetail \/ MarkDetail \/ BatchCheck \/ DetailsOpen \/ DetailsDump
    \/ FlushDetails \/ NextTender \/ DetailsExit
    \/ Y2026Load \/ Y2026Skip \/ Y2026Fetch \/ Y2026Request \/ Y2026Return
    \/ Y2026Write \/ Y2026Flush \/ Y2026Mark \/ Y2026Open \/ Y2026Dump
    \/ Y2026Advance \/ Y2026Exit
    \/ RangeStart \/ RangeFetch \/ RangeReturn \/ RangeOpen \/ RangeDump
    \/ Interrupt \/ Crash \/ NewRun

Spec == Init /\ [][Next]_vars

-----------------------------------------------------------------------------
(* Properties *)

Range(seq) == {seq[i] : i \in 1 .. Len(seq)}

(* every record the catalogue holds for the day is a line of the file *)
AllOnDisk(ord) == CountOf(data_disk, DateStr(ord)) >= RecordsOn(ord)

(* C1: in download_all_data every date of the on-disk checkpoint for which *)
(* the server returned records has all of them on disk in the record file, *)
(* in every state.                                                         *)
C1_CheckpointAfterSink ==
    mode = "all" =>
        \A d \in Ordinals :
            (DateStr(d) \in CheckpointKeys /\ DateStr(d) \in got)
            => AllOnDisk(d)

(* C2: after an interrupted run has exited, every date whose records are   *)
(* completely in the record file is in the on-disk checkpoint.             *)
C2_InterruptKeepsCheckpoint ==
    (mode = "all" /\ pc = "interrupted") =>
        \A d \in Ordinals :
            (RecordsOn(d) > 0 /\ AllOnDisk(d)) => DateStr(d) \in CheckpointKeys

(* C3: when download_all_data has stopped, by reaching the end of the      *)
(* range or by an interrupt, the on-disk checkpoint holds every date       *)
(* marked complete in memory.                                              *)
C3_StopFlushesCheckpoint ==
    (mode = "all" /\ pc \in {"returned", "interrupted"})
    => downloaded_dates \subseteq CheckpointKeys

(* C4: a run that starts on a checkpoint holding D but not D+1 never       *)
(* requests D, and has requested D+1 once its loop has passed D+1.         *)
C4_ResumeSkipsDoneFetchesNext ==
    \A d \in Ordinals :
        (d + 1 <= end_date /\ DateStr(d) \in loaded /\ DateStr(d + 1) \notin loaded)
        => /\ DateStr(d) \notin Range(fetched)
           /\ (pc \in Running /\ current_date > d + 1)
                 => DateStr(d + 1) \in Range(fetched)

C4_Witness ==
    /\ mode = "all" /\ run > 1 /\ prev.exit = "interrupted"
    /\ DateStr(start_date) \in loaded
    /\ DateStr(start_date + 1) \notin loaded
    /\ DateStr(start_date + 1) \in Range(fetched)
    /\ pc = "loop" /\ current_date > start_date + 1

(* C5: no date and no pair whose key was in the pass's checkpoint when the  *)
(* run loaded it is requested in that run.                                 *)
C5_NoRequestForLoadedKey ==
    /\ Range(fetched) \cap loaded = {}
    /\ \A i \in 1 .. Len(requested) :
          TenderId(requested[i][1], requested[i][2]) \notin loaded

(* a detail run that found a checkpointed pair in the list file, left it   *)
(* out and requested another one                                           *)
C5_Witness ==
    /\ mode = "details" /\ pc = "d_loop"
    /\ requested # <<>>
    /\ \E i \in 1 .. Len(data_disk) :
          TenderId(data_disk[i].unit_id, data_disk[i].job_number) \in loaded

(* C6: one run of the detail crawl requests no pair twice, and requests no *)
(* pair whose key is in the detail checkpoint it loaded.                   *)
C6_DetailAtMostOnce ==
    /\ \A i, j \in 1 .. Len(requested) :
          i # j => requested[i] # requested[j]
    /\ \A i \in 1 .. Len(requested) :
          TenderId(requested[i][1], requested[i][2]) \notin loaded

(* C7: a date whose fetch was answered 429 on every attempt is not marked  *)
(* complete and is not in the checkpoint.                                  *)
C7_RateLimitedStaysPending ==
    (pc \in Running /\ caller # "get_info" /\ rate_limited)
    => date_str \notin (downloaded_dates \cup CheckpointKeys)

(* C8: a call whose max_retries attempts were all answered 429 ends with   *)
(* an error, not with a value its caller takes for an empty result.        *)
C8_RateLimitedIsError ==
    (/\ pc = "called"
     /\ Len(responses) = max_retries
     /\ \A i \in 1 .. Len(responses) : responses[i] = "r429")
    => call_result.kind = "raise"

(* C9: after a crash inside _save_progress the checkpoint on disk is       *)
(* loadable and holds every key of the previous completed write.           *)
C9_CrashInFlushKeepsKeys ==
    (pc = "crashed" /\ exit_at \in {"dump", "dump_final"})
    => /\ Loadable(progress_file)
       /\ flushed_keys \subseteq progress_file.dates

BothReturned == mode = "all" /\ pc = "returned" /\ prev.exit = "returned"

CountsUnchanged ==
    \A k \in prev.keys : CountOf(data_disk, k) = CountOf(prev.disk, k)

(* C10 as stated: after two complete runs over the same range the key set  *)
(* of the checkpoint is the one the first run left, and the record counts  *)
(* of the dates the first run completed are unchanged.                     *)
C10_Original ==
    BothReturned => (CheckpointKeys = prev.keys /\ CountsUnchanged)

(* C10: after two complete runs over the same range the key set of the     *)
(* checkpoint contains the one the first run left, and is equal to it when *)
(* the first run left no date of the range out; the record counts of the   *)
(* dates the first run completed are unchanged.                            *)
C10_Idempotent ==
    BothReturned =>
        /\ prev.keys \subseteq CheckpointKeys
        /\ (DateKeys \subseteq prev.keys => CheckpointKeys = prev.keys)
        /\ CountsUnchanged

C10_Witness ==
    /\ BothReturned
    /\ DateKeys \subseteq prev.keys
    /\ CheckpointKeys = prev.keys
    /\ \E d \in Ordinals : RecordsOn(d) > 0 /\ AllOnDisk(d)

(* the last element of a non-empty sequence *)
Last(seq) == seq[Len(seq)]

(* a step that requests a date, or marks a date complete, although the     *)
(* date has been written to the checkpoint before                          *)
FetchesOrMarksAgain ==
    \/ Len(fetched') > Len(fetched) /\ Last(fetched') \in flushed_keys
    \/ downloaded_count' > downloaded_count /\ date_str \in flushed_keys

C12_FailedDateStaysPending ==
    mode \in {"all", "y2026"} =>
        /\ failed \cap downloaded_dates = {}
        /\ pc = "raised" => failed = {}
        /\ pc \in {"loop", "y_loop"} => date_str \notin failed

(* the fetch of a date raised and the next date of the range has been      *)
(* answered                                                                *)
C12_Witness ==
    /\ mode = "all" /\ pc = "write"
    /\ Len(fetched) = 2
    /\ fetched[1] \in failed
    /\ fetched[2] \in served

(* detail requests of this run that returned a document *)
Answered == {i \in 1 .. Len(answers) : answers[i]}

(* lines the running detail crawl has written to the detail record file *)
DetailLinesWritten == Len(details_disk) + Len(details_buf) - Len(prev.disk)

(* C13: in the detail crawl a key is added to the completed set or to the  *)
(* checkpoint, and a line is written, only for a request that returned a   *)
(* document; every request that did has its line when the loop goes on;    *)
(* and a run that has made a request does not die of an exception.         *)
C13_FailedPairStaysPending ==
    /\ (mode = "details" /\ pc = "raised") => requested = <<>>
    /\ (mode = "details" /\ pc \in Running \ {"start", "d_load"}) =>
            /\ \A k \in (downloaded_ids \cup DetailKeys) \ loaded :
                  \E i \in Answered :
                     TenderId(requested[i][1], requested[i][2]) = k
            /\ DetailLinesWritten <= Cardinality(Answered)
            /\ pc \in {"d_loop", "d_sleep"}
                  => DetailLinesWritten = Cardinality(Answered)

(* the first request of the run failed, nothing was written and no key     *)
(* added for it, and the second pair has been requested                    *)
C13_Witness ==
    /\ mode = "details" /\ pc = "called"
    /\ Len(requested) = 2 /\ Len(answers) = 1 /\ ~answers[1]
    /\ downloaded_ids = loaded
    /\ DetailLinesWritten = 0

(* every attempt of the call in progress so far has timed out *)
AllTimedOut ==
    /\ caller \in {"get_info", "list_by_date", "get_tender_detail"}
    /\ responses # <<>>
    /\ \A i \in 1 .. Len(responses) : responses[i] = "timeout"

(* C14: a call of _request_with_retry whose attempts all time out sleeps   *)
(* 5 s after each attempt but the last, ends after max_retries attempts    *)
(* and then raises the timeout; the list crawl does not mark the date.     *)
C14_TimeoutPropagates ==
    /\ [](AllTimedOut =>
            /\ \A i \in 1 .. Len(sleeps) : sleeps[i] = 5
            /\ pc = "request" => /\ Len(responses) < max_retries
                                 /\ Len(sleeps) = Len(responses)
            /\ pc = "called" => /\ Len(responses) = max_retries
                                /\ Len(sleeps) = max_retries - 1
                                /\ call_result = Raise("Timeout"))
    /\ [][(AllTimedOut /\ pc = "called" /\ caller = "list_by_date"
           /\ pc' \in Running)
          => /\ downloaded_dates' = downloaded_dates
             /\ date_str \in failed'
             /\ date_str \notin CheckpointKeys']_vars

(* the fetch of a date has timed out three times *)
C14_Witness ==
    /\ pc = "called" /\ caller = "list_by_date"
    /\ responses = <<"timeout", "timeout", "timeout">>
    /\ sleeps = <<5, 5>>

(* answers that are failures other than a 429 and a timeout *)
OtherFailures == {"httperr", "connerr", "badjson"}

(* C15: in a call of _request_with_retry an HTTP error status, a           *)
(* connection failure or a malformed body is the last answer of the call:  *)
(* the call has ended and raised the exception of that answer.             *)
C15_OtherErrorsNotRetried ==
    caller \in {"get_info", "list_by_date", "get_tender_detail"} =>
        \A i \in 1 .. Len(responses) :
            responses[i] \in OtherFailures =>
                /\ i = Len(responses)
                /\ pc = "called"
                /\ call_result.kind = "raise"
                /\ call_result.exc \in Raises(responses[i])

(* a 429 was retried, the connection failure after it was not *)
C15_Witness ==
    /\ pc = "called" /\ caller = "get_tender_detail"
    /\ responses = <<"r429", "connerr">>
    /\ call_result = Raise("ConnectionError")

(* the call in progress was answered 429, 429 and then successfully *)
TwiceLimitedThenOk ==
    pc = "called" /\ responses = <<"r429", "r429", "ok">>

(* C16: in one fetch call the wait after a 429 is 10 s times the number of *)
(* the attempt it answered, so that a later 429 of the call waits longer   *)
(* than an earlier one, whatever timeouts lie between them; after 429,     *)
(* 429, success the call has slept 10 s and 20 s and returns the answer,   *)
(* which the list crawl takes as the records of the date.                  *)
C16_BackoffMonotone ==
    /\ [](/\ \A i \in 1 .. Len(responses) :
                responses[i] = "r429"
                => i <= Len(sleeps) /\ sleeps[i] = 10 * i
          /\ \A i, j \in 1 .. Len(responses) :
                (i < j /\ responses[i] = "r429" /\ responses[j] = "r429")
                => sleeps[i] < sleeps[j]
          /\ TwiceLimitedThenOk
                => sleeps = <<10, 20>> /\ call_result = Value)
    /\ [][(/\ TwiceLimitedThenOk
           /\ caller \in {"list_by_date", "download_2026_data"}
           /\ pc' \in Running)
          => /\ towrite' = Upstream(current_date)
             /\ date_str \in served'
             /\ date_str \notin failed']_vars

(* a timeout between two 429 answers of a list fetch *)
C16_Witness ==
    /\ pc = "called" /\ caller = "list_by_date"
    /\ responses = <<"r429", "timeout", "r429">>
    /\ sleeps = <<10, 5, 30>>

(* the days of the range of the list crawl that is running *)
ListRange == IF mode = "y2026" THEN Y2026Start .. Y2026End ELSE Ordinals

(* the date is the one being processed, between its answer and its mark *)
BeingRecorded(ord) ==
    pc \in {"write", "y_write", "y_mark"} /\ current_date = ord

(* C17: in download_all_data and download_2026_data a date that was        *)
(* answered successfully with an empty list has no                         *)
(* line in the record file, is in the completed set as soon as it has been *)
(* processed, and is in the checkpoint when the crawl returns.             *)
C17_EmptyDateIsCompleted ==
    \A d \in ListRange :
        (/\ mode \in {"all", "y2026"}
         /\ RecordsOn(d) = 0
         /\ DateStr(d) \in served) =>
            /\ CountOf(data_disk \o data_buf, DateStr(d)) = 0
            /\ (pc \in Running /\ ~BeingRecorded(d))
                  => DateStr(d) \in downloaded_dates
            /\ pc = "returned" => DateStr(d) \in CheckpointKeys

(* the full crawl has returned with an empty day in its checkpoint *)
C17_Witness ==
    /\ mode = "all" /\ pc = "returned"
    /\ \E d \in Ordinals :
          /\ RecordsOn(d) = 0
          /\ DateStr(d) \in served
          /\ DateStr(d) \in CheckpointKeys
          /\ CountOf(data_disk, DateStr(d)) = 0

(* the pair occurs in a line of the list file *)
InListFile(unit_id, job_number) ==
    \E j \in 1 .. Len(data_disk) : data_disk[j] = Tender(unit_id, job_number)

(* C18: every detail request is for a pair of a list record, with both     *)
(* fields non-empty and with a key that was not in the detail checkpoint   *)
(* the run loaded.                                                         *)
C18_RequestsOnlyDiscoveredPairs ==
    mode = "details" =>
        \A i \in 1 .. Len(requested) :
            /\ InListFile(requested[i][1], requested[i][2])
            /\ requested[i][1] # ""
            /\ requested[i][2] # ""
            /\ TenderId(requested[i][1], requested[i][2]) \notin loaded

(* the detail crawl has gone through a list file that has a record with    *)
(* an empty field next to a complete one, and has made a request           *)
C18_Witness ==
    /\ mode = "details" /\ pc = "d_loop" /\ tenders = <<>>
    /\ requested # <<>>
    /\ \E j \in 1 .. Len(data_disk) :
          data_disk[j].unit_id = "" \/ data_disk[j].job_number = ""

(* seq is the beginning of longer *)
IsPrefix(seq, longer) ==
    /\ Len(seq) <= Len(longer)
    /\ \A i \in 1 .. Len(seq) : seq[i] = longer[i]

(* C19: over any sequence of runs every step leaves the lines that are in  *)
(* a record file where they are, and only adds lines after them.           *)
C19_RecordFileAppendOnly ==
    [][/\ IsPrefix(data_disk, data_disk')
       /\ IsPrefix(details_disk, details_disk')]_vars

(* a resumed run of the list crawl has added lines after those it found *)
C19_Witness ==
    /\ mode = "all" /\ run > 1 /\ pc \in Running
    /\ prev.disk # <<>>
    /\ IsPrefix(prev.disk, data_disk)
    /\ Len(data_disk) > Len(prev.disk)

(* C20: in download_all_data, whenever a date is requested the lines of    *)
(* the dates before it have been flushed: the buffer of the record file    *)
(* holds lines of the date in flight only.                                 *)
C20_FlushedBeforeNextDate ==
    (mode = "all" /\ pc \in {"request", "called"} /\ caller = "list_by_date")
    => \A i \in 1 .. Len(data_buf) : data_buf[i].date = date_str

(* the day of the range a date key stands for *)
KeyOrdinal(key) == CHOOSE d \in ListRange : DateStr(d) = key

(* the keys of the days of the range *)
RangeKeys == {DateStr(d) : d \in ListRange}

(* the loop over the range of the running list crawl has ended *)
LoopDone ==
    \/ mode = "all" /\ pc \in {"save_final", "dump_final", "returned"}
    \/ mode = "y2026" /\ pc = "returned"

(* C21: the dates a run of the list crawl has requested are dates of the   *)
(* range that were not in the checkpoint it loaded, each requested once,   *)
(* in ascending order; when the loop has ended they are all of them, the   *)
(* first and the last day of the range included.                           *)
C21_AscendingOncePerPendingDate ==
    mode \in {"all", "y2026"} =>
        /\ \A i \in 1 .. Len(fetched) :
              fetched[i] \in RangeKeys \ loaded
        /\ \A i, j \in 1 .. Len(fetched) :
              i < j => KeyOrdinal(fetched[i]) < KeyOrdinal(fetched[j])
        /\ LoopDone => Range(fetched) = RangeKeys \ loaded

(* a resumed full crawl has returned after requesting the dates it had not *)
(* found in the checkpoint                                                 *)
C21_Witness ==
    /\ mode = "all" /\ pc = "returned"
    /\ loaded # {}
    /\ Len(fetched) >= 2
    /\ Range(fetched) = DateKeys \ loaded

(* the record has a _download_date, and it is a date of the range *)
HasSourceDate(rec) ==
    /\ "date" \in DOMAIN rec
    /\ rec.date \in {DateStr(d) : d \in Ordinals \cup ListRange}

(* C22: every record a list-pass crawl has put on disk, in the record file *)
(* of a resumable crawl or in the file of a date-range download, carries   *)
(* the date key of its request.                                            *)
C22_EveryRecordStamped ==
    /\ mode \in {"all", "y2026"}
          => \A i \in 1 .. Len(data_disk) : HasSourceDate(data_disk[i])
    /\ \A i \in 1 .. Len(range_file.records) :
          HasSourceDate(range_file.records[i])

(* the lines the running detail crawl has appended to the detail record    *)
(* file, flushed or not                                                    *)
RunLines ==
    SubSeq(details_disk \o details_buf, Len(prev.disk) + 1,
           Len(details_disk) + Len(details_buf))

(* C23: at every point of a detail crawl at most batch_size of the pairs   *)
(* it has appended in this run have a key that is not in the detail        *)
(* checkpoint on disk.                                                     *)
C23_AtMostBatchUncheckpointed ==
    (mode = "details" /\ pc \in Running) =>
        Cardinality({i \in 1 .. Len(RunLines) :
                        TenderId(RunLines[i][1], RunLines[i][2])
                            \notin DetailKeys}) <= BatchSize

(* C24: the total_tenders a run of the list crawl writes to the checkpoint *)
(* is not smaller than the one in the checkpoint the previous run left     *)
(* when it returned.                                                       *)
C24_TotalNeverDecreases ==
    (/\ mode = "all" /\ run > 1 /\ prev.exit = "returned"
     /\ progress_file.st = "ok")
    => progress_file.total >= prev.total


-----------------------------------------------------------------------------
(* C25: an HTTP request is sent only if the run has sent none before or    *)
(* time.sleep() was called since the one before it: between any two         *)
(* consecutive requests of a crawl there is a wait.                        *)
C25_WaitBetweenRequests == pc = "request" => waited


-----------------------------------------------------------------------------
(* C26: when the detail crawl has stopped, by returning or by an interrupt *)
(* from the keyboard, nothing written to tender_details.jsonl is still     *)
(* buffered and details_progress.json holds every pair the run marked      *)
(* complete.                                                               *)
C26_DetailStopFlushesBoth ==
    (mode = "details" /\ pc \in {"returned", "interrupted"})
    => /\ details_buf = <<>>
       /\ downloaded_ids \subseteq DetailKeys


-----------------------------------------------------------------------------
(* download_all_data, lines 288-315: the range of the crawl from the       *)
(* metadata answer.  A string is the sequence of its characters; a         *)
(* datetime is <<year, month, day>> (the time of day plays no part in the  *)
(* range) and None is <<>>.                                                *)

NoDate == <<>>

Num2(n) == <<Digit[(n \div 10) + 1], Digit[(n % 10) + 1]>>

Num4(n) == Num2(n \div 100) \o Num2(n % 100)

(* the suffix line 298 removes *)
Offset == <<"+", "0", "8", ":", "0", "0">>

Midnight == <<"T", "0", "0", ":", "0", "0", ":", "0", "0">>

DateOnly(y, m, d) == Num4(y) \o <<"-">> \o Num2(m) \o <<"-">> \o Num2(d)

(* the format of line 287: "2026-01-06T00:00:00+08:00" *)
IsoString(y, m, d) == DateOnly(y, m, d) \o Midnight \o Offset

BareString(y, m, d) == Num4(y) \o Num2(m) \o Num2(d)

(* what the metadata endpoint may hold under either key: nothing, dates    *)
(* in the format of line 287, a month that does not exist, a date without  *)
(* a time, bare 8 digit dates (alone, with an impossible month, followed   *)
(* by a time) and a date written with slashes                              *)
InfoStrings ==
    { <<>>,
      IsoString(1999, 1, 21), IsoString(2026, 1, 6), IsoString(2005, 3, 1),
      IsoString(2026, 13, 1),
      DateOnly(1999, 1, 21),
      BareString(2026, 1, 6), BareString(2026, 13, 1),
      BareString(2026, 1, 5) \o <<" ", "1", "2", ":", "3", "0">>,
      <<"2", "0", "2", "6", "/", "0", "1", "/", "0", "6">> }

IsDigit(c) == \E i \in 1 .. Len(Digit) : Digit[i] = c

DigitOf(c) == (CHOOSE i \in 1 .. Len(Digit) : Digit[i] = c) - 1

IsNumber(s) == s # <<>> /\ \A i \in 1 .. Len(s) : IsDigit(s[i])

RECURSIVE Number(_)
Number(s) ==
    IF s = <<>> THEN 0
    ELSE 10 * Number(SubSeq(s, 1, Len(s) - 1)) + DigitOf(s[Len(s)])

(* str.replace(old, ''): every occurrence of old, left to right *)
RECURSIVE Replace(_, _)
Replace(s, old) ==
    IF Len(s) < Len(old) THEN s
    ELSE IF SubSeq(s, 1, Len(old)) = old
         THEN Replace(SubSeq(s, Len(old) + 1, Len(s)), old)
         ELSE <<Head(s)>> \o Replace(Tail(s), old)

(* s[:n] *)
Prefix(s, n) == SubSeq(s, 1, IF Len(s) < n THEN Len(s) ELSE n)

IsLeap(y) == y % 4 = 0 /\ (y % 100 # 0 \/ y % 400 = 0)

DaysIn(y, m) == IF m = 2 /\ IsLeap(y) THEN MonthDays[m] + 1 ELSE MonthDays[m]

(* datetime(y, m, d), which raises ValueError for a date that does not     *)
(* exist                                                                   *)
MakeDate(y, m, d) ==
    IF y >= 1 /\ m \in 1 .. 12 /\ d \in 1 .. DaysIn(y, m) THEN <<y, m, d>>
    ELSE NoDate

(* the time of day fromisoformat accepts: HH, HH:MM or HH:MM:SS *)
IsTime(t) ==
    /\ Len(t) \in {2, 5, 8}
    /\ IsNumber(SubSeq(t, 1, 2)) /\ Number(SubSeq(t, 1, 2)) < 24
    /\ Len(t) >= 5 => /\ t[3] = ":"
                      /\ IsNumber(SubSeq(t, 4, 5))
                      /\ Number(SubSeq(t, 4, 5)) < 60
    /\ Len(t) = 8 => /\ t[6] = ":"
                     /\ IsNumber(SubSeq(t, 7, 8))
                     /\ Number(SubSeq(t, 7, 8)) < 60

(* line 298: datetime.fromisoformat on a string without offset:            *)
(* YYYY-MM-DD, alone or followed by one character and a time of day.       *)
(* NoDate stands for the ValueError.  A bare YYYYMMDD is refused here and  *)
(* accepted by line 301 (an interpreter whose fromisoformat accepts it     *)
(* returns the same date).                                                 *)
fromisoformat(s) ==
    IF /\ Len(s) \in {10, 13, 16, 19}
       /\ IsNumber(SubSeq(s, 1, 4)) /\ s[5] = "-"
       /\ IsNumber(SubSeq(s, 6, 7)) /\ s[8] = "-"
       /\ IsNumber(SubSeq(s, 9, 10))
       /\ Len(s) > 10 => IsTime(SubSeq(s, 12, Len(s)))
    THEN MakeDate(Number(SubSeq(s, 1, 4)), Number(SubSeq(s, 6, 7)),
                  Number(SubSeq(s, 9, 10)))
    ELSE NoDate

(* line 301: datetime.strptime(s, "%Y%m%d") on 8 characters *)
strptime(s) ==
    IF Len(s) = 8 /\ IsNumber(s)
    THEN MakeDate(Number(SubSeq(s, 1, 4)), Number(SubSeq(s, 5, 6)),
                  Number(SubSeq(s, 7, 8)))
    ELSE NoDate

(* lines 293-303 *)
parse_date(str) ==
    IF str = <<>> THEN NoDate
    ELSE IF fromisoformat(Replace(str, Offset)) # NoDate
         THEN fromisoformat(Replace(str, Offset))
         ELSE strptime(Prefix(str, 8))

(* line 314: datetime(1999, 1, 21) *)
Epoch == <<1999, 1, 21>>

(* line 315: what datetime.now() may return *)
Nows == {<<2026, 11, 5>>, <<2026, 11, 6>>}

(* lines 305-315: <<oldest_date, newest_date>> after the fallback *)
ResolveRange(oldest, newest, now) ==
    IF parse_date(oldest) = NoDate \/ parse_date(newest) = NoDate
    THEN <<Epoch, now>>
    ELSE <<parse_date(oldest), parse_date(newest)>>

(* lines 288-315 over the answers the metadata endpoint may give *)
ParseInfo ==
    /\ pc = "called" /\ caller = "get_info"
    /\ IF call_result.kind = "value"
       THEN /\ \E oldest \in InfoStrings, newest \in InfoStrings, now \in Nows :
                 /\ oldest_date_str' = oldest
                 /\ newest_date_str' = newest
                 /\ oldest_date' = ResolveRange(oldest, newest, now)[1]
                 /\ newest_date' = ResolveRange(oldest, newest, now)[2]
            /\ pc' = "load" /\ UNCHANGED exit_at
       ELSE /\ pc' = "raised" /\ exit_at' = "get_info"
            /\ UNCHANGED infov
    /\ NoCall
    /\ UNCHANGED <<mode, run, filev, dfilev, memv, dmemv, rangev, histv,
                   waited>>

ParseNext == GetInfo \/ Request \/ ParseInfo

ParseSpec == Init /\ [][ParseNext]_vars

(* one date string resolved on its own: the two parses, then the epoch *)
ResolvedAlone(str) ==
    IF parse_date(str) # NoDate THEN parse_date(str) ELSE Epoch

Scenario ==
    (/\ oldest_date_str = IsoString(1999, 1, 21)
     /\ newest_date_str = IsoString(2026, 1, 6))
    => oldest_date = <<1999, 1, 21>> /\ newest_date = <<2026, 1, 6>>

(* C27: once the range is derived, its start is the earliest string        *)
(* resolved on its own (ISO parse without the +08:00 suffix, else the      *)
(* first 8 characters as a bare date, else the epoch), its end is the      *)
(* latest string as parsed whenever that string parses, and the answer     *)
(* 1999-01-21T00:00:00+08:00 / 2026-01-06T00:00:00+08:00 gives             *)
(* 1999-01-21 .. 2026-01-06.                                               *)
C27_RangeResolvedIndependently ==
    oldest_date # NoDate =>
        /\ oldest_date = ResolvedAlone(oldest_date_str)
        /\ parse_date(newest_date_str) # NoDate
           => newest_date = parse_date(newest_date_str)
        /\ Scenario


-----------------------------------------------------------------------------
(* C28: in download_2026_data, in every state, a date of the on-disk       *)
(* checkpoint has none of its records still buffered, and if the server    *)
(* returned records for it to this run, all of them are lines of           *)
(* tenders_2026.jsonl on disk.                                             *)
C28_Y2026CheckpointAfterFlush ==
    mode = "y2026" =>
        \A d \in Y2026Start .. Y2026End :
            DateStr(d) \in CheckpointKeys
            => /\ CountOf(data_buf, DateStr(d)) = 0
               /\ DateStr(d) \in got => AllOnDisk(d)

C28_Witness ==
    /\ mode = "y2026" /\ pc = "crashed" /\ exit_at = "y_advance"
    /\ \E d \in Y2026Start .. Y2026End :
         /\ DateStr(d) \in CheckpointKeys /\ DateStr(d) \in got
         /\ RecordsOn(d) > 0 /\ AllOnDisk(d)


-----------------------------------------------------------------------------
(* C29: in the detail crawl, in every state, every key of the on-disk      *)
(* details_progress.json is the key of a line of tender_details.jsonl on   *)
(* disk.                                                                   *)
C29_DetailCheckpointAfterFlush ==
    mode = "details" =>
        \A k \in DetailKeys :
            \E i \in 1 .. Len(details_disk) :
                TenderId(details_disk[i][1], details_disk[i][2]) = k


-----------------------------------------------------------------------------
(* C30: the detail key tells pairs apart.  In a run that follows a run     *)
(* which returned, every pair of the list file that is passed over because *)
(* its key was read from the checkpoint has its own document in            *)
(* tender_details.jsonl: no pair is skipped because a different pair was   *)
(* checkpointed.                                                           *)
C30_NoPairSkippedForAnother ==
    (/\ mode = "details" /\ run > 1 /\ prev.exit = "returned"
     /\ pc \in Running \ {"start", "d_load"})
    => \A i \in 1 .. Len(data_disk) :
          (/\ data_disk[i].unit_id # "" /\ data_disk[i].job_number # ""
           /\ TenderId(data_disk[i].unit_id, data_disk[i].job_number)
                  \in loaded)
          => <<data_disk[i].unit_id, data_disk[i].job_number>>
                 \in Range(details_disk)


-----------------------------------------------------------------------------
(* the callers whose request goes through _request_with_retry *)
RetryCallers ==
    {"get_info", "list_by_date", "get_tender_detail", "download_date_range"}

(* C31: a call of _request_with_retry makes at most max_retries HTTP       *)
(* attempts whatever the answers are.  While it runs, every answer so far  *)
(* was a 429 or a timeout and each of them used up one attempt of the one  *)
(* budget; once it is over it has returned a response, returned None or    *)
(* raised an exception, and it has used the whole budget only if the       *)
(* first max_retries - 1 answers were 429s and timeouts.                   *)
C31_AtMostMaxRetriesAttempts ==
    caller \in RetryCallers =>
        /\ Len(responses) <= max_retries
        /\ pc = "request" =>
              /\ Len(responses) < max_retries
              /\ attempt = Len(responses)
              /\ call_result = Pending
              /\ \A i \in 1 .. Len(responses) :
                    responses[i] \in {"r429", "timeout"}
        /\ pc = "called" =>
              /\ Len(responses) >= 1
              /\ call_result.kind \in {"value", "falsy", "none", "raise"}
              /\ \A i \in 1 .. Len(responses) - 1 :
                    responses[i] \in {"r429", "timeout"}

(* 429s and timeouts mixed in one call use up the budget together *)
C31_Witness ==
    /\ pc = "called" /\ caller = "list_by_date"
    /\ responses = <<"r429", "timeout", "r429">>
    /\ call_result = None


-----------------------------------------------------------------------------
(* C32: in a run of download_all_data the keys read from the checkpoint,   *)
(* a key outside the range of the crawl included, stay in the in-memory    *)
(* set and are in the checkpoint file whenever it holds a complete         *)
(* snapshot; every snapshot the run writes holds them, and no step of a    *)
(* run takes a key out of the in-memory set.                               *)
C32_CompletedKeysOnlyGrow ==
    /\ []((mode = "all" /\ pc # "start")
          => /\ loaded \subseteq downloaded_dates
             /\ progress_file.st = "ok" => loaded \subseteq progress_file.dates)
    /\ [][(mode = "all" /\ pc' # "start")
          => /\ downloaded_dates \subseteq downloaded_dates'
             /\ (progress_file' # progress_file /\ progress_file'.st = "ok")
                => /\ loaded \subseteq progress_file'.dates
                   /\ downloaded_dates \subseteq progress_file'.dates]_vars

(* a run that started on a checkpoint of another range has written a       *)
(* snapshot with a date of its own range                                   *)
C32_Witness ==
    /\ mode = "all" /\ run = 1 /\ pc \in Running
    /\ ForeignKey \in loaded
    /\ progress_file.st = "ok" /\ progress_file # LeftBehind
    /\ ForeignKey \in progress_file.dates
    /\ progress_file.dates \cap DateKeys # {}


-----------------------------------------------------------------------------
(* dates this run of the list crawl has marked complete *)
MarkedThisRun == downloaded_dates \ loaded

(* C33: at every point of a run of download_all_data at most save_interval *)
(* of the dates it has marked complete are missing from the checkpoint on  *)
(* disk.                                                                   *)
C33_AtMostIntervalUnsaved ==
    (mode = "all" /\ pc \in Running)
    => Cardinality(MarkedThisRun \ CheckpointKeys) <= SaveInterval

====
